---- MODULE Spec2Model ----
(***************************************************************************)
(* Model of src/server.js of BackChat: the in-memory message store, the    *)
(* sendMessage mutation that appends to it and publishes on the PubSub,    *)
(* and the messageAdded subscription, whose hand-written async iterator    *)
(* registers a fresh listener on the PubSub inside every next() call and   *)
(* whose return() touches nothing.                                         *)
(*                                                                         *)
(* JavaScript runs each handler to completion on one thread, and           *)
(* PubSub.publish calls EventEmitter.emit, which invokes the listeners of  *)
(* the trigger synchronously in registration order.  Each action below is  *)
(* therefore one whole handler.                                            *)
(***************************************************************************)
EXTENDS Integers, Sequences, FiniteSets, TLC

(* ------------------------------ bounds --------------------------------- *)
MaxCalls == 6         \* handler calls explored (sendMessage, subscribe, next, return)

(* ------------------------------ inputs --------------------------------- *)
ChannelIds == {"1", "2"}          \* the ids of `channels`, server.js:21-24
SenderIds  == {"1"}               \* an id of `users`, server.js:16-19
Contents   == {"hi"}
Elapsed    == {0, 1}              \* clock ticks between two reads of the clock

(* ------------------------- JavaScript values --------------------------- *)
Undefined == [type |-> "undefined"]
Null      == [type |-> "null"]
Truthy(v) == v # Undefined /\ v # Null

Digits == <<"0", "1", "2", "3", "4", "5", "6", "7", "8", "9">>

\* String(n) of server.js:80 for a non-negative integer: its decimal digits.
RECURSIVE String(_)
String(n) ==
  IF n < 10 THEN Digits[n + 1]
  ELSE String(n \div 10) \o Digits[(n % 10) + 1]

\* new Date().toISOString() of server.js:82, at clock tick t.
ToISOString(t) == "1970-01-01T00:00:0" \o String(t) \o ".000Z"

\* The template literal of server.js:89 and server.js:98.
TopicName(channelId) == "MESSAGE_ADDED_" \o channelId

Topics == {TopicName(c) : c \in ChannelIds}

(* ------------------------------- state --------------------------------- *)
VARIABLES
  messages,   \* the `messages` array
  now,        \* the wall clock, as last read by new Date()
  ee,         \* the PubSub's emitter: trigger name -> listeners, in registration order
  sessions,   \* one record per subscribe() call: the variables its closure captures
  closures,   \* one record per next() call: the locals of its promise executor
  promises,   \* one record per next() call: the promise it returned
  openedAt,   \* history: Len(messages) when each subscribe() was called
  calledAt,   \* history: Len(messages) when each next() was called
  closes      \* history: per session, the number of return() calls and
              \* Len(messages) at the first of them

vars == <<messages, now, ee, sessions, closures, promises, openedAt, calledAt, closes>>

prog == <<messages, ee, sessions, closures, promises>>

Pending == [state |-> "pending"]
Fulfilled(result) == [state |-> "fulfilled", result |-> result]

\* resolve(result) on promise p: settles a pending promise, ignored afterwards.
Resolve(pr, p, result) ==
  IF pr[p].state = "pending" THEN [pr EXCEPT ![p] = Fulfilled(result)] ELSE pr

\* The number of handler calls made so far.
RECURSIVE Returns(_)
Returns(cs) == IF cs = <<>> THEN 0 ELSE Head(cs).n + Returns(Tail(cs))

Calls == Len(messages) + Len(sessions) + Len(promises) + Returns(closes)

Init ==
  /\ messages = <<>>
  /\ now = 0
  /\ ee = [t \in Topics |-> <<>>]
  /\ sessions = <<>>
  /\ closures = <<>>
  /\ promises = <<>>
  /\ openedAt = <<>>
  /\ calledAt = <<>>
  /\ closes = <<>>

(* ------------------------------ listener ------------------------------- *)
\* A listener that records the event but forgets to call resolveNext.
listener_NoResolve(st, l, event) ==
  LET c == st.closures[l] IN
  IF Truthy(c.resolveNext)
  THEN [closures |-> [st.closures EXCEPT ![l].value = event, ![l].resolveNext = Null],
        promises |-> st.promises]
  ELSE [closures |-> [st.closures EXCEPT ![l].value = event],
        promises |-> st.promises]

\* The listener created by next() call number l, invoked with `event`;
\* st is [closures, promises].
listener(st, l, event) ==
  LET c == st.closures[l] IN
  IF Truthy(c.resolveNext)
  THEN [closures |-> [st.closures EXCEPT ![l].value = event, ![l].resolveNext = Null],
        promises |-> Resolve(st.promises, c.resolveNext.promise,
                             [value |-> event, done |-> FALSE])]
  ELSE [closures |-> [st.closures EXCEPT ![l].value = event],
        promises |-> st.promises]

\* An emit that stops after the first listener of the trigger.
emit_FirstOnly(st, ls, event) ==
  IF ls = <<>> THEN st
  ELSE listener(st, Head(ls), event)

\* EventEmitter.emit: call the listeners of one trigger in registration order.
RECURSIVE emit(_, _, _)
emit(st, ls, event) ==
  IF ls = <<>> THEN st
  ELSE emit(listener(st, Head(ls), event), Tail(ls), event)

\* A publish that notifies the listeners of every trigger, not only topicName's.
publish_Broadcast(st, topicName, payload) ==
  emit(st, ee[TopicName("1")] \o ee[TopicName("2")], payload)

\* pubsub.publish(topicName, payload)
publish(st, topicName, payload) == emit(st, ee[topicName], payload)

(* ------------------------------- queries ------------------------------- *)
\* Query.messages: the records of the store with the given channelId.
Query_messages(channelId) == SelectSeq(messages, LAMBDA message : message.channelId = channelId)

(* ----------------------------- sendMessage ----------------------------- *)
\* A sendMessage that numbers the record messages.length, without the + 1.
sendMessage_IdFromLength(content, senderId, channelId, t) ==
  /\ Calls < MaxCalls
  /\ now' = t
  /\ LET newMessage == [id        |-> String(Len(messages)),
                        content   |-> content,
                        createdAt |-> ToISOString(t),
                        senderId  |-> senderId,
                        channelId |-> channelId]
         topicName == TopicName(channelId)
         st == publish([closures |-> closures, promises |-> promises],
                       topicName, [messageAdded |-> newMessage])
     IN /\ messages' = Append(messages, newMessage)
        /\ closures' = st.closures
        /\ promises' = st.promises
  /\ UNCHANGED <<ee, sessions, openedAt, calledAt, closes>>

\* A sendMessage that publishes a record numbered after the push, so that the
\* published record is not the stored one.
sendMessage_PublishesOtherRecord(content, senderId, channelId, t) ==
  /\ Calls < MaxCalls
  /\ now' = t
  /\ LET newMessage == [id        |-> String(Len(messages) + 1),
                        content   |-> content,
                        createdAt |-> ToISOString(t),
                        senderId  |-> senderId,
                        channelId |-> channelId]
         topicName == TopicName(channelId)
         st == publish([closures |-> closures, promises |-> promises],
                       topicName,
                       [messageAdded |-> [newMessage EXCEPT !.id = String(Len(messages) + 2)]])
     IN /\ messages' = Append(messages, newMessage)
        /\ closures' = st.closures
        /\ promises' = st.promises
  /\ UNCHANGED <<ee, sessions, openedAt, calledAt, closes>>

sendMessage(content, senderId, channelId, t) ==
  /\ Calls < MaxCalls
  /\ now' = t
  /\ LET newMessage == [id        |-> String(Len(messages) + 1),
                        content   |-> content,
                        createdAt |-> ToISOString(t),
                        senderId  |-> senderId,
                        channelId |-> channelId]
         topicName == TopicName(channelId)
         st == publish([closures |-> closures, promises |-> promises],
                       topicName, [messageAdded |-> newMessage])
     IN /\ messages' = Append(messages, newMessage)
        /\ closures' = st.closures
        /\ promises' = st.promises
  /\ UNCHANGED <<ee, sessions, openedAt, calledAt, closes>>

(* ------------------------------ subscribe ------------------------------ *)
subscribe(channelId) ==
  /\ Calls < MaxCalls
  /\ sessions' = Append(sessions, [topicName |-> TopicName(channelId),
                                   iterator  |-> Undefined])
  /\ openedAt' = Append(openedAt, Len(messages))
  /\ closes' = Append(closes, [n |-> 0, at |-> 0])
  /\ UNCHANGED <<messages, now, ee, closures, promises, calledAt>>

(* -------------------------------- next --------------------------------- *)
\* An executor whose `value` starts as the newest record of the store (an
\* event replayed to the new listener) instead of undefined.
executor_Replay(s, p) ==
  LET pr0 == Append(promises, Pending) IN
  IF Truthy(sessions[s].iterator)
  THEN [ee |-> ee,
        closure  |-> [session |-> s, listeners |-> <<>>,
                      resolveNext |-> Undefined, value |-> Undefined],
        promises |-> pr0]
  ELSE LET value0 == IF messages = <<>> THEN Undefined
                     ELSE [messageAdded |-> messages[Len(messages)]]
           ee1 == [ee EXCEPT ![sessions[s].topicName] = Append(@, p)]
       IN IF Truthy(value0)
          THEN [ee |-> ee1,
                closure  |-> [session |-> s, listeners |-> <<p>>,
                              resolveNext |-> Undefined, value |-> Null],
                promises |-> Resolve(pr0, p, [value |-> value0, done |-> FALSE])]
          ELSE [ee |-> ee1,
                closure  |-> [session |-> s, listeners |-> <<p>>,
                              resolveNext |-> [promise |-> p], value |-> value0],
                promises |-> pr0]

\* An executor that subscribes only when its topic has no listener yet.
executor_RegisterOnce(s, p) ==
  LET pr0 == Append(promises, Pending) IN
  IF Truthy(sessions[s].iterator)
  THEN [ee |-> ee,
        closure  |-> [session |-> s, listeners |-> <<>>,
                      resolveNext |-> Undefined, value |-> Undefined],
        promises |-> pr0]
  ELSE LET value0 == Undefined
           ee1 == IF ee[sessions[s].topicName] = <<>>
                  THEN [ee EXCEPT ![sessions[s].topicName] = Append(@, p)]
                  ELSE ee
       IN IF Truthy(value0)
          THEN [ee |-> ee1,
                closure  |-> [session |-> s, listeners |-> <<p>>,
                              resolveNext |-> Undefined, value |-> Null],
                promises |-> Resolve(pr0, p, [value |-> value0, done |-> FALSE])]
          ELSE [ee |-> ee1,
                closure  |-> [session |-> s, listeners |-> <<p>>,
                              resolveNext |-> [promise |-> p], value |-> value0],
                promises |-> pr0]

\* The promise executor of next() on session s; p is the new promise and
\* listener.  Returns the new [ee, closure, promises].
executor(s, p) ==
  LET pr0 == Append(promises, Pending) IN
  IF Truthy(sessions[s].iterator)
  THEN [ee |-> ee,
        closure  |-> [session |-> s, listeners |-> <<>>,
                      resolveNext |-> Undefined, value |-> Undefined],
        promises |-> pr0]
  ELSE LET value0 == Undefined
           ee1 == [ee EXCEPT ![sessions[s].topicName] = Append(@, p)]
       IN IF Truthy(value0)
          THEN [ee |-> ee1,
                closure  |-> [session |-> s, listeners |-> <<p>>,
                              resolveNext |-> Undefined, value |-> Null],
                promises |-> Resolve(pr0, p, [value |-> value0, done |-> FALSE])]
          ELSE [ee |-> ee1,
                closure  |-> [session |-> s, listeners |-> <<p>>,
                              resolveNext |-> [promise |-> p], value |-> value0],
                promises |-> pr0]

next(s) ==
  /\ Calls < MaxCalls
  /\ LET r == executor(s, Len(promises) + 1)
     IN /\ ee' = r.ee
        /\ closures' = Append(closures, r.closure)
        /\ promises' = r.promises
  /\ calledAt' = Append(calledAt, Len(messages))
  /\ UNCHANGED <<messages, now, sessions, openedAt, closes>>

(* ------------------------------- return -------------------------------- *)
\* The value return() hands back: Promise.resolve({ value: undefined, done: true }).
returnResult == Fulfilled([value |-> Undefined, done |-> TRUE])

\* A return() that, once the session has been closed, drops every listener of
\* the session's topic from the PubSub.
return_RemovesTopicListeners(s) ==
  /\ Calls < MaxCalls
  /\ closes' = [closes EXCEPT ![s] = [n  |-> @.n + 1,
                                      at |-> IF @.n = 0 THEN Len(messages) ELSE @.at]]
  /\ ee' = IF closes[s].n > 0 THEN [ee EXCEPT ![sessions[s].topicName] = <<>>] ELSE ee
  /\ UNCHANGED <<messages, now, sessions, closures, promises, openedAt, calledAt>>

return(s) ==
  /\ Calls < MaxCalls
  /\ closes' = [closes EXCEPT ![s] = [n  |-> @.n + 1,
                                      at |-> IF @.n = 0 THEN Len(messages) ELSE @.at]]
  /\ UNCHANGED <<messages, now, ee, sessions, closures, promises, openedAt, calledAt>>

(* -------------------------------- Next --------------------------------- *)
\* The wall clock never runs backwards: a new Date() reads no less than the
\* previous one did.
Next ==
  \/ \E content \in Contents, senderId \in SenderIds, channelId \in ChannelIds,
        d \in Elapsed :
       sendMessage(content, senderId, channelId, now + d)
  \/ \E channelId \in ChannelIds : subscribe(channelId)
  \/ \E s \in 1..Len(sessions) : next(s)
  \/ \E s \in 1..Len(sessions) : return(s)

Spec == Init /\ [][Next]_vars

(* ===================== vocabulary of the properties ====================== *)
SessionIds == 1..Len(sessions)
PullIds    == 1..Len(promises)

IsPrefix(a, b) == Len(a) <= Len(b) /\ SubSeq(b, 1, Len(a)) = a

\* return() has been called on session s.
closed(s) == closes[s].n > 0

\* The next() calls made on session s, in call order.
PullsOf(s) == SelectSeq([p \in PullIds |-> p], LAMBDA p : closures[p].session = s)

\* The listeners of session s that are registered on the PubSub.
ListenersOf(s) ==
  {l \in PullIds : closures[l].session = s
                   /\ \E i \in 1..Len(ee[sessions[s].topicName]) :
                        ee[sessions[s].topicName][i] = l}

IsPending(p) == promises[p].state = "pending"
HasPending(s) == \E p \in PullIds : closures[p].session = s /\ IsPending(p)

\* The event sendMessage publishes for the i-th record of the store.
EventOf(i) == [messageAdded |-> messages[i]]

\* The i-th sendMessage published to the topic of session s.
OnTopic(s, i) == TopicName(messages[i].channelId) = sessions[s].topicName

\* The events published to the topic of s from its subscribe() to its first
\* return(), or to now while it has not been closed, in publish order.
PublishedWhileOpen(s) ==
  LET last == IF closed(s) THEN closes[s].at ELSE Len(messages)
      idx  == SelectSeq([i \in 1..Len(messages) |-> i],
                        LAMBDA i : i > openedAt[s] /\ i <= last /\ OnTopic(s, i))
  IN [k \in 1..Len(idx) |-> EventOf(idx[k])]

\* What the settled next() calls of s returned as events, in call order.
Returned(s) ==
  LET done == SelectSeq(PullsOf(s), LAMBDA p : promises[p].state = "fulfilled"
                                               /\ ~promises[p].result.done)
  IN [k \in 1..Len(done) |-> promises[done[k]].result.value]

\* The events published while s was open that no next() of s has returned.
Undelivered(s) ==
  SelectSeq(PublishedWhileOpen(s),
            LAMBDA e : \A k \in 1..Len(Returned(s)) : Returned(s)[k] # e)

\* s has been handed, in order, what was published while it was open, and no
\* next() of an open s waits while such an event is still undelivered.
Complete(s) ==
  /\ IsPrefix(Returned(s), PublishedWhileOpen(s))
  /\ (~closed(s) /\ HasPending(s)) => Returned(s) = PublishedWhileOpen(s)

\* This step is a sendMessage whose event goes to the topic of session s.
PublishStep(s) ==
  /\ Len(messages') = Len(messages) + 1
  /\ TopicName(messages'[Len(messages')].channelId) = sessions[s].topicName

\* This step is a next() call on session s; NewPull is the promise it returns.
NewPull == Len(promises) + 1
NextStep(s) ==
  /\ Len(promises') = Len(promises) + 1
  /\ closures'[NewPull].session = s

\* This step is a return() call on session s.
ReturnStep(s) == closes'[s].n = closes[s].n + 1

\* End-of-sequence: a promise settled as the one return() hands back.
EndOfSequence == returnResult

(* ================================ claims ================================= *)

\* C1: for every session, the events its successive next() calls return are,
\* in order, exactly the events published to its topic while it was open:
\* none missing, none twice, also when an event is published while no next()
\* is pending.
C1_ReturnsExactlyWhatWasPublished == \A s \in SessionIds : Complete(s)

\* C2: a next() that is pending when sendMessage publishes an event to its
\* topic is resolved by that publish with that event and done = false; it
\* neither ends the sequence nor stays pending.  (The code keeps no buffer,
\* so every pending next() is one that was called with nothing buffered.)
C2_PendingPullGetsEvent ==
  [][\A p \in PullIds :
       (IsPending(p) /\ PublishStep(closures[p].session))
         => promises'[p] = Fulfilled([value |-> [messageAdded |-> messages'[Len(messages')]],
                                      done  |-> FALSE])]_vars

\* C2 witness: a next() was called, an event was published afterwards, and
\* the promise holds that event.
C2_Witness ==
  \E p \in PullIds :
    /\ promises[p].state = "fulfilled"
    /\ ~promises[p].result.done
    /\ calledAt[p] < Len(messages)
    /\ promises[p].result.value = EventOf(calledAt[p] + 1)

\* C3: return() on a session resolves each of its pending next() calls with
\* end-of-sequence, and a publish to the topic of a closed session changes
\* none of the session's promises and runs none of its listeners.
C3_CloseEndsPendingPull ==
  [][\A s \in SessionIds :
       /\ ReturnStep(s)
            => \A p \in PullIds :
                 (closures[p].session = s /\ IsPending(p)) => promises'[p] = EndOfSequence
       /\ (closed(s) /\ PublishStep(s))
            => \A p \in PullIds :
                 closures[p].session = s
                   => promises'[p] = promises[p] /\ closures'[p] = closures[p]]_vars

\* C4: once return() has been called on a session, no listener of that
\* session is registered on the PubSub.
C4_NoListenerAfterClose ==
  \A s \in SessionIds : closed(s) => ListenersOf(s) = {}

\* C5: every session that has not been closed has exactly one listener
\* registered on the PubSub, from subscribe() on and whatever the number of
\* next() calls.
C5_OneListenerPerOpenSession ==
  \A s \in SessionIds : ~closed(s) => Cardinality(ListenersOf(s)) = 1

\* C6: two sessions on the same topic each receive every event published to
\* the topic while they are open, in publish order, whatever the other does.
C6_BothSessionsReceiveAll ==
  \A s1, s2 \in SessionIds :
    (s1 # s2 /\ sessions[s1].topicName = sessions[s2].topicName)
      => Complete(s1) /\ Complete(s2)

\* C7: a next() called while an earlier next() of the same session is still
\* pending is rejected, and leaves the pending pull, the closures and the
\* listener registry as they were.
C7_SecondPullRejected ==
  [][\A s \in SessionIds :
       (HasPending(s) /\ NextStep(s))
         => /\ promises'[NewPull].state = "rejected"
            /\ ee' = ee
            /\ \A p \in PullIds : promises'[p] = promises[p] /\ closures'[p] = closures[p]]_vars

\* C8: a next() on a session on which return() has been called returns
\* end-of-sequence at once and registers nothing on the PubSub.
C8_NextAfterCloseEnds ==
  [][\A s \in SessionIds :
       (closed(s) /\ NextStep(s)) => promises'[NewPull] = EndOfSequence /\ ee' = ee]_vars

\* C9: a next() on an open session with undelivered events (published to its
\* topic while no next() was pending) returns the oldest of them at once.
C9_BufferedEventReturnedAtOnce ==
  [][\A s \in SessionIds :
       (~closed(s) /\ NextStep(s) /\ Undelivered(s) # <<>>)
         => promises'[NewPull] = Fulfilled([value |-> Head(Undelivered(s)), done |-> FALSE])]_vars

\* C10: no replay.  An event a next() returns was published after the
\* subscribe() of its session, and a sendMessage to a topic that has no
\* listener changes no session, closure, promise or registry state.
C10_NoReplay ==
  [][/\ \A p \in 1..Len(promises') :
          (promises'[p].state = "fulfilled" /\ ~promises'[p].result.done)
            => \E i \in 1..Len(messages') :
                 /\ i > openedAt'[closures'[p].session]
                 /\ promises'[p].result.value = [messageAdded |-> messages'[i]]
     /\ \A c \in ChannelIds :
          (Len(messages') = Len(messages) + 1
             /\ messages'[Len(messages')].channelId = c
             /\ ee[TopicName(c)] = <<>>)
            => UNCHANGED <<ee, sessions, closures, promises>>]_vars

\* C10 witness: an event was published to a topic while it had no listener,
\* a session was opened on that topic afterwards, and a next() of that
\* session has returned an event.
C10_Witness ==
  \E s \in SessionIds, p \in PullIds :
    /\ closures[p].session = s
    /\ promises[p].state = "fulfilled"
    /\ \E i \in 1..openedAt[s] :
         /\ OnTopic(s, i)
         /\ \A q \in PullIds :
              sessions[closures[q].session].topicName = sessions[s].topicName
                => calledAt[q] >= i

\* The next() calls of session s that are still pending.
PendingOf(s) == {p \in PullIds : closures[p].session = s /\ IsPending(p)}

\* C11: in every state of every session, an undelivered event and an
\* outstanding pull never coexist, and at most one pull is outstanding.
C11_QueueXorPull ==
  \A s \in SessionIds :
    /\ Cardinality(PendingOf(s)) <= 1
    /\ ~closed(s) => (Undelivered(s) = <<>> \/ PendingOf(s) = {})

\* C12: return() is idempotent.  A return() on a session that is already
\* closed, or that never had a next() call, hands back end-of-sequence and
\* leaves the store, the listener registry and every session, closure and
\* promise as they were.
C12_ReturnIdempotent ==
  [][\A s \in SessionIds :
       (ReturnStep(s) /\ (closed(s) \/ PullsOf(s) = <<>>))
         => /\ returnResult.state = "fulfilled"
            /\ returnResult.result = [value |-> Undefined, done |-> TRUE]
            /\ UNCHANGED prog]_vars

\* C12 witness: return() has been called twice on a session whose listener
\* is registered on the PubSub.
C12_Witness ==
  \E s \in SessionIds : closes[s].n >= 2 /\ ListenersOf(s) # {}

\* Every message a next() has returned is in the store and in Query.messages
\* of its channel.
ReturnedAreStored ==
  \A p \in PullIds :
    (promises[p].state = "fulfilled" /\ ~promises[p].result.done)
      => LET m == promises[p].result.value.messageAdded
         IN /\ \E i \in 1..Len(messages) : messages[i] = m
            /\ \E k \in 1..Len(Query_messages(m.channelId)) :
                 Query_messages(m.channelId)[k] = m

\* C13: every sendMessage appends exactly one record to the store and
\* publishes that record to the topic of its channelId.  A next() that a
\* step resolves holds the record that step appended, and every message a
\* next() has returned is in the store and in Query.messages of its channel.
C13_StoredBeforePublished ==
  [][/\ messages' # messages => \E i \in 1..Len(messages') : messages' = Append(messages, messages'[i])
     /\ ReturnedAreStored'
     /\ \A p \in PullIds :
          (IsPending(p) /\ promises'[p].state = "fulfilled")
            => /\ messages' = Append(messages, promises'[p].result.value.messageAdded)
               /\ TopicName(promises'[p].result.value.messageAdded.channelId)
                    = sessions[closures[p].session].topicName]_vars

\* C13 witness: a next() has returned a message of a store that holds
\* messages of both channels.
C13_Witness ==
  /\ \E p \in PullIds : promises[p].state = "fulfilled"
  /\ \E i, j \in 1..Len(messages) : messages[i].channelId # messages[j].channelId

\* C14: topic isolation.  A next() of a session on channel A is resolved only
\* with a message whose channelId is A, and a sendMessage to another channel
\* resolves no pull of that session and changes none of its state (its
\* record, its closures, its promises, the listeners of its topic).
C14_TopicIsolation ==
  [][/\ \A p \in 1..Len(promises') :
          (promises'[p].state = "fulfilled" /\ ~promises'[p].result.done)
            => TopicName(promises'[p].result.value.messageAdded.channelId)
                 = sessions'[closures'[p].session].topicName
     /\ \A s \in SessionIds :
          (Len(messages') = Len(messages) + 1
             /\ TopicName(messages'[Len(messages')].channelId) # sessions[s].topicName)
            => /\ sessions'[s] = sessions[s]
               /\ ee'[sessions[s].topicName] = ee[sessions[s].topicName]
               /\ \A p \in PullIds :
                    closures[p].session = s
                      => promises'[p] = promises[p] /\ closures'[p] = closures[p]]_vars

\* C14 witness: two sessions on different channels each had a pending next(),
\* a message was sent to one channel, and only the pull of that channel's
\* session was resolved.
C14_Witness ==
  \E p, q \in PullIds :
    /\ sessions[closures[p].session].topicName # sessions[closures[q].session].topicName
    /\ promises[p].state = "fulfilled"
    /\ IsPending(q)
    /\ calledAt[q] < Len(messages)

\* The listeners registered for each topic are as many as the next() calls
\* ever made on sessions of that topic.
ListenerCount ==
  \A t \in Topics :
    Len(ee[t]) = Cardinality({p \in PullIds : sessions[closures[p].session].topicName = t})

\* C15: after any sequence of operations the number of listeners registered
\* for a topic equals the number of next() calls ever made on iterators of
\* that topic, and no operation removes a listener: the registered listeners
\* of a topic only grow.
C15_ListenerPerNextNeverRemoved ==
  [][/\ ListenerCount'
     /\ \A t \in Topics : IsPrefix(ee[t], ee'[t])]_vars

\* C15 witness: a topic has two listeners, one of a pull that was resolved,
\* and return() has been called on their session.
C15_Witness ==
  \E s \in SessionIds :
    /\ closed(s)
    /\ Cardinality(ListenersOf(s)) >= 2
    /\ \E p \in ListenersOf(s) : promises[p].state = "fulfilled"

\* The sendMessage calls made after next() call p that published to the
\* topic of its session.
LaterOnTopic(p) ==
  {i \in (calledAt[p] + 1)..Len(messages) : OnTopic(closures[p].session, i)}

Least(S) == CHOOSE i \in S : \A j \in S : i <= j

\* A next() is pending exactly while nothing has been published to its topic
\* since it was called, and otherwise holds the first event published since.
ResolvedByFirstLater ==
  \A p \in PullIds :
    IF LaterOnTopic(p) = {}
    THEN IsPending(p)
    ELSE promises[p] = Fulfilled([value |-> EventOf(Least(LaterOnTopic(p))), done |-> FALSE])

\* C16: every next() suspends when it is called; its promise is resolved at
\* most once, only with done = false and only with the first event published
\* to its topic after the call, never with an earlier event and never with
\* done = true.
C16_PullGetsFirstLaterEvent ==
  [][/\ Len(promises') = Len(promises) + 1 => promises'[NewPull] = Pending
     /\ \A p \in PullIds : ~IsPending(p) => promises'[p] = promises[p]
     /\ ResolvedByFirstLater']_vars

\* C16 witness: a next() holds the first of two events published to its
\* topic after it was called.
C16_Witness ==
  \E p \in PullIds :
    /\ Cardinality(LaterOnTopic(p)) >= 2
    /\ promises[p].state = "fulfilled"
    /\ promises[p].result.value = EventOf(Least(LaterOnTopic(p)))

\* C17: at-most-once delivery per session.  For every session and every
\* publish, at most one next() of the session is resolved with the event of
\* that publish.
C17_AtMostOncePerSession ==
  \A s \in SessionIds, i \in 1..Len(messages) :
    Cardinality({p \in PullIds :
                   /\ closures[p].session = s
                   /\ promises[p] = Fulfilled([value |-> EventOf(i), done |-> FALSE])}) <= 1

\* The decimal numerals of 1..9.
Numerals == <<"1", "2", "3", "4", "5", "6", "7", "8", "9">>

\* The record at position i has id i, and ids are pairwise distinct.
IdsArePositions ==
  /\ \A i \in 1..Len(messages) : i <= Len(Numerals) => messages[i].id = Numerals[i]
  /\ \A i, j \in 1..Len(messages) : i # j => messages[i].id # messages[j].id

\* This step is a subscribe(), a next() or a return(); every other step that
\* changes the state is a sendMessage.
SubscriptionStep ==
  \/ Len(sessions') # Len(sessions)
  \/ Len(promises') # Len(promises)
  \/ closes' # closes

\* C18: the store is append-only, the record at position i has id i, each
\* sendMessage appends exactly one record (so the length of the store is the
\* number of sendMessage calls), and subscribe(), next() and return() leave
\* the store unchanged.
C18_StoreAppendOnly ==
  [][/\ IdsArePositions'
     /\ SubscriptionStep => messages' = messages
     /\ ~SubscriptionStep
          => Len(messages') = Len(messages) + 1 /\ SubSeq(messages', 1, Len(messages)) = messages]_vars

\* C18 witness: the store holds two records, and a session was opened and a
\* next() called between the two sendMessage calls.
C18_Witness ==
  /\ Len(messages) >= 2
  /\ \E s \in SessionIds : openedAt[s] = 1
  /\ \E p \in PullIds : calledAt[p] = 1

====
